---- MODULE Spec2Model ----
(***************************************************************************)
(* The event-monitoring and evaluation pipeline of the MEV service:        *)
(*   - the two feed supervisors (blocks, pending transactions) and the     *)
(*     gas-price monitor of blockchain/monitor.rs, with the shutdown       *)
(*     channel of BlockchainMonitorHandle;                                 *)
(*   - SimulationService::simulate_transaction with its semaphore, and     *)
(*     the client-level gas-price cache it reads (blockchain/client.rs).   *)
(*                                                                         *)
(* Spec      is the monitor: both feeds, the gas-price monitor, shutdown.  *)
(* FairSpec  is Spec with the fairness of the task scheduler.              *)
(* SpecEval  is the evaluator under concurrent callers.                    *)
(* SpecProfit, SpecBundle and SpecService follow one call of               *)
(*           simulate_transaction, estimate_bundle_profit and              *)
(*           TransactionService::get_gas_price.                            *)
(* SpecPipeline is both feeds with process_new_block and                   *)
(*           process_pending_transaction followed statement by statement.  *)
(***************************************************************************)
EXTENDS Integers, Sequences, FiniteSets, TLC

\* ------------------------------------------------------------- bounds
\* config.worker_threads: the number of semaphore permits (num_cpus by default).
WorkerThreads == 2
\* Concurrent callers of simulate_transaction.
NumCallers == 3
\* items a subscription stream yields at most
MaxItems == 2
\* transactions in a bundle at most
MaxBundle == 2
\* transactions in a block at most
MaxBlockTxs == 2
\* Gas prices (of a transaction, of the provider) range over 0..MaxGasPrice.
MaxGasPrice == 1

\* ---------------------------------------------------------- constants
\* let max_retries = 10;
max_retries == 10
\* retry_count.min(6): the exponent's cap in the backoff delay.
BackoffExpCap == 6
\* mpsc::channel(1)
ChannelCapacity == 1
\* gas_limit * 80 / 100
GasUsedNum == 80
GasUsedDen == 100
\* The gas limit of the transactions the callers submit.
SimGasLimit == 5

Feeds == {"block", "tx"}
\* tasks: vec![block_task, tx_task, gas_task]
Tasks == <<"block", "tx", "gas">>
Callers == 1..NumCallers
\* The transaction feed is one more caller of simulate_transaction (through
\* TransactionService::process_pending_transaction).
FeedCaller == 0
AllCallers == Callers \cup {FeedCaller}
GasPrices == 0..MaxGasPrice
\* The largest value of the client-level cache, an AtomicU64: the model's
\* stand-in for u64::MAX. The provider answers with a U256, which may be
\* larger; one such answer is enough.
U64Max == MaxGasPrice
ProviderPrices == 0..(U64Max + 1)
\* Transaction.gas_price is an Option<U256>: None for a transaction that
\* carries no gas price.
NoPrice == -1
SimTxs == [gas_price : GasPrices, gas : {SimGasLimit}]
NoTx == [gas_price |-> 0, gas |-> 0]
\* Result<U256> of simulate_transaction
NoOut == [kind |-> "none", profit |-> 0]
Ok(profit) == [kind |-> "ok", profit |-> profit]
Err == [kind |-> "err", profit |-> 0]
\* The call did not return: it panicked (the task unwinds).
Panicked == [kind |-> "panic", profit |-> 0]

VARIABLES
  \* ---- feed supervisors (spawn_block_monitor, spawn_transaction_monitor)
  feedState,      \* position of the task: Subscribing, Streaming, Processing, Backoff, Stopped
  retry_count,    \* the task's local retry_count
  stopKind,       \* how the task ended: none, clean (shutdown), fatal (retries), panic
  streamEnded,    \* the subscription stream has returned None
  \* ---- history of a feed's current run of failed subscribes
  consecFails,    \* failed subscribe attempts since the last successful one
  sleeps,         \* backoff sleeps completed in that run
  delay,          \* the last delay computed in that run (seconds; 0: none yet)
  recovered,      \* the current subscription was obtained after at least one failure
  \* ---- the items of a feed's current subscription
  yielded,        \* items stream.next() has yielded, numbered 1, 2, ... as delivered
  handed,         \* the items handed to the sink (process_*), in hand-off order
  inProcess,      \* the items handed to the sink whose processing has not returned
  lastProc,       \* the result of the last process_* call: none yet, ok, err
  txPc,           \* process_pending_transaction: idle, get_tx, sim, ret_ok, ret_err
  \* ---- gas-price monitor (spawn_gas_price_monitor, update_gas_price)
  gasMon,         \* Waiting, Fetching, Updating, Stopped, Panicked
  gasFetched,     \* the price update_gas_price holds between its two writes
  client_gas_price,   \* BlockchainClient.current_gas_price
  service_gas_price,  \* TransactionService.current_gas_price
  service_written,    \* the service-level cache was written since the last
                      \* TransactionService::get_gas_price call began
  \* ---- shutdown (BlockchainMonitorHandle)
  shutdown_chan,  \* messages queued in the shutdown channel
  shutdownPc,     \* idle, joining, returned
  joined,         \* tasks already joined by shutdown()
  sends,          \* messages ever sent on the shutdown channel
  firedInBackoff, \* the feeds that were in their backoff sleep when the message was sent
  sendFailed,     \* shutdown()'s send returned Err (dropped by `let _ =`)
  joinWarned,     \* the tasks whose join returned Err (logged by warn!)
  shutdownResult, \* what shutdown() returned: none yet, ok, err
  \* ---- main: the graceful shutdown of the process
  mainPc,         \* running, api, monitor, services, done (Ok(())), failed (`?` returned Err)
  apiDown,        \* api_server.shutdown() has returned
  servicesDown,   \* how many services, in the order of ServiceContext::shutdown, are shut down
  \* ---- evaluator (SimulationService)
  permits,        \* free permits of the semaphore
  simPc,          \* per caller: idle, acquire, cached, fetch
  simTx,          \* per caller: the transaction under evaluation
  simOut,         \* per caller: the result of its last call (none yet, Ok(profit), Err)
  current_gas_price,  \* per caller: the local current_gas_price (0 before it is read)
  \* ---- estimate_bundle_profit (one call, by SoloCaller)
  bundlePc,       \* idle, loop (top of the for loop), eval (in simulate_transaction), returned
  bundleRest,     \* the transactions of the bundle not yet evaluated
  bundleTxs,      \* the argument `transactions` of the call
  bundleSeen,     \* the transactions handed to simulate_transaction so far, in order
  total_profit,   \* the local total_profit
  bundleOks,      \* the profits of the members whose evaluation returned Ok, in order
  bundleFails,    \* the number of members whose evaluation returned Err
  bundleResult,   \* what estimate_bundle_profit returned (none yet, Ok(total), Err)
  \* ---- TransactionService::get_gas_price (one caller at a time)
  svcPc,          \* idle, fetch (in blockchain_client.get_gas_price)
  svcOut,         \* the result of the last call and the price it carries
  \* ---- what TransactionService::process_pending_transaction emits
  received,       \* counter transactions_received_total
  processed,      \* counter transactions_processed_total
  dropped,        \* counter transactions_dropped_total
  stored,         \* the items store_transaction was called for
  profitRec,      \* <<item, profit>>: the calls of update_transaction_profit
  flagged,        \* the items mark_transaction_for_inclusion was called for
  \* ---- process_new_block (the block in process)
  blockPc,        \* idle, loop (top of the for loop), ret_ok, ret_err
  blockTxs,       \* block.transactions
  blockRest,      \* the transactions the loop has not reached yet
  confirmedLog,   \* the transactions handed to process_confirmed_transaction, in order
  confirmErrs     \* those of them for which the handler returned Err

sinkVars == <<yielded, handed, inProcess, lastProc, txPc>>
feedVars == <<feedState, retry_count, stopKind, streamEnded, consecFails, sleeps, delay, recovered,
              sinkVars>>
gasVars == <<gasMon, gasFetched, client_gas_price, service_gas_price, service_written>>
mainVars == <<mainPc, apiDown, servicesDown>>
shutdownVars == <<shutdown_chan, shutdownPc, joined, sends, firedInBackoff,
                  sendFailed, joinWarned, shutdownResult, mainVars>>
bundleVars == <<bundlePc, bundleRest, bundleTxs, bundleSeen, total_profit, bundleOks, bundleFails,
                bundleResult>>
svcVars == <<svcPc, svcOut>>
pendVars == <<received, processed, dropped, stored, profitRec, flagged>>
blockVars == <<blockPc, blockTxs, blockRest, confirmedLog, confirmErrs>>
pipeVars == <<pendVars, blockVars>>
simVars == <<permits, simPc, simTx, simOut, current_gas_price, bundleVars, svcVars>>
vars == <<feedVars, gasVars, shutdownVars, simVars, pipeVars>>

Min(a, b) == IF a < b THEN a ELSE b

InitRest ==
  /\ feedState = [f \in Feeds |-> "Subscribing"]
  /\ retry_count = [f \in Feeds |-> 0]
  /\ stopKind = [f \in Feeds |-> "none"]
  /\ streamEnded = [f \in Feeds |-> FALSE]
  /\ consecFails = [f \in Feeds |-> 0]
  /\ sleeps = [f \in Feeds |-> 0]
  /\ delay = [f \in Feeds |-> 0]
  /\ recovered = [f \in Feeds |-> FALSE]
  /\ yielded = [f \in Feeds |-> 0]
  /\ handed = [f \in Feeds |-> <<>>]
  /\ inProcess = [f \in Feeds |-> {}]
  /\ lastProc = [f \in Feeds |-> "none"]
  /\ txPc = "idle"
  /\ gasMon = "Waiting"
  /\ gasFetched = 0
  /\ service_written = FALSE
  /\ shutdown_chan = 0
  /\ shutdownPc = "idle"
  /\ joined = 0
  /\ sends = 0
  /\ firedInBackoff = {}
  /\ sendFailed = FALSE
  /\ joinWarned = {}
  /\ shutdownResult = "none"
  /\ permits = WorkerThreads
  /\ simPc = [c \in AllCallers |-> "idle"]
  /\ simTx = [c \in AllCallers |-> NoTx]
  /\ simOut = [c \in AllCallers |-> NoOut]
  /\ current_gas_price = [c \in AllCallers |-> 0]
  /\ svcPc = "idle"
  /\ svcOut = [kind |-> "none", price |-> 0]
  /\ mainPc = "running"
  /\ apiDown = FALSE
  /\ servicesDown = 0
  /\ bundlePc = "idle"
  /\ bundleRest = <<>>
  /\ bundleTxs = <<>>
  /\ bundleSeen = <<>>
  /\ total_profit = 0
  /\ bundleOks = <<>>
  /\ bundleFails = 0
  /\ bundleResult = NoOut
  /\ received = 0
  /\ processed = 0
  /\ dropped = 0
  /\ stored = {}
  /\ profitRec = {}
  /\ flagged = {}
  /\ blockPc = "idle"
  /\ blockTxs = <<>>
  /\ blockRest = <<>>
  /\ confirmedLog = <<>>
  /\ confirmErrs = {}

\* After construction both gas-price caches hold 0.
Init ==
  /\ InitRest
  /\ client_gas_price = 0
  /\ service_gas_price = 0

\* ================================================= feed supervisors
\* if retry_count > max_retries { ... break; }
ExceededKeepsLast(rc) == rc >= max_retries
Exceeded(rc) == rc > max_retries

\* Duration::from_secs(2u64.pow(retry_count.min(6) as u32)), in seconds
BackoffDelayUncapped(rc) == 2 ^ rc
BackoffDelay(rc) == 2 ^ Min(rc, BackoffExpCap)

\* let mut retry_count = 0: a local of each supervisor task.
SharedRetryCell(f) == "block"
RetryCell(f) == f

\* Ok(mut stream) => { retry_count = 0; ... }
RetryKept(rc) == rc
RetryAfterSubscribe(rc) == 0

\* shutdown_rx.recv() is ready: a message is queued (Some), or the sender is
\* gone (None; the pattern `_` takes both). The handle drops its sender when
\* shutdown() returns.
RecvReady == shutdown_chan > 0 \/ shutdownPc = "returned"

\* The receiver takes the queued message, if there is one.
ChanAfterRecv == IF shutdown_chan > 0 THEN shutdown_chan - 1 ELSE shutdown_chan

\* blockchain_client.subscribe_blocks() / subscribe_pending_txs() returned Ok.
SubscribeOk(f) ==
  /\ feedState[f] = "Subscribing"
  /\ feedState' = [feedState EXCEPT ![f] = "Streaming"]
  /\ retry_count' = [retry_count EXCEPT ![f] = RetryAfterSubscribe(@)]
  /\ streamEnded' = [streamEnded EXCEPT ![f] = FALSE]
  /\ recovered' = [recovered EXCEPT ![f] = consecFails[f] > 0]
  /\ consecFails' = [consecFails EXCEPT ![f] = 0]
  /\ sleeps' = [sleeps EXCEPT ![f] = 0]
  /\ delay' = [delay EXCEPT ![f] = 0]
  /\ yielded' = [yielded EXCEPT ![f] = 0]
  /\ handed' = [handed EXCEPT ![f] = <<>>]
  /\ inProcess' = [inProcess EXCEPT ![f] = {}]
  /\ lastProc' = [lastProc EXCEPT ![f] = "none"]
  /\ UNCHANGED <<pipeVars, stopKind, txPc, gasVars, shutdownVars, simVars>>

\* retry_count += 1 after a failed subscribe.
RetryAfterFailureTwice(rc) == rc + 2
RetryAfterFailure(rc) == rc + 1

\* The subscribe call returned Err: count it, then stop for good or back off.
SubscribeErr(f) ==
  /\ feedState[f] = "Subscribing"
  /\ LET rc == RetryAfterFailure(retry_count[RetryCell(f)]) IN
       /\ retry_count' = [retry_count EXCEPT ![RetryCell(f)] = rc]
       /\ consecFails' = [consecFails EXCEPT ![f] = @ + 1]
       /\ IF Exceeded(rc)
            THEN /\ feedState' = [feedState EXCEPT ![f] = "Stopped"]
                 /\ stopKind' = [stopKind EXCEPT ![f] = "fatal"]
                 /\ delay' = delay
            ELSE /\ feedState' = [feedState EXCEPT ![f] = "Backoff"]
                 /\ stopKind' = stopKind
                 /\ delay' = [delay EXCEPT ![f] = BackoffDelay(rc)]
  /\ UNCHANGED <<pipeVars,
                 streamEnded, sleeps, recovered, sinkVars, gasVars, shutdownVars, simVars>>

\* tokio::time::sleep(delay).await returned: back to the top of 'outer.
\* The sleep is awaited on its own, outside any select!.
BackoffElapsed(f) ==
  /\ feedState[f] = "Backoff"
  /\ feedState' = [feedState EXCEPT ![f] = "Subscribing"]
  /\ sleeps' = [sleeps EXCEPT ![f] = @ + 1]
  /\ UNCHANGED <<pipeVars, retry_count, stopKind, streamEnded, consecFails, delay, recovered,
                 sinkVars, gasVars, shutdownVars, simVars>>

\* The select! of the inner loop is reached, and its branches polled, only
\* between two items: the handler of the stream branch awaits process_*
\* inline, nothing is spawned per item.
StreamPolledWhileBusy(f) == feedState[f] \in {"Streaming", "Processing"}
StreamPolled(f) == feedState[f] = "Streaming"

\* select!: Some(item) = stream.next() => process it. The stream yields its
\* items in the order the provider delivered them; the item is handed to
\* process_new_block / process_pending_transaction at once.
StreamItem(f) ==
  /\ StreamPolled(f)
  /\ ~streamEnded[f]
  /\ yielded[f] < MaxItems
  /\ LET item == yielded[f] + 1 IN
       /\ yielded' = [yielded EXCEPT ![f] = item]
       /\ handed' = [handed EXCEPT ![f] = Append(@, item)]
       /\ inProcess' = [inProcess EXCEPT ![f] = @ \cup {item}]
  /\ feedState' = [feedState EXCEPT ![f] = "Processing"]
  /\ txPc' = IF f = "tx" THEN "get_tx" ELSE txPc
  /\ UNCHANGED <<pipeVars,
                 retry_count, stopKind, streamEnded, consecFails, sleeps, delay, recovered,
                 lastProc, gasVars, shutdownVars, simVars>>

\* process_new_block has its result: the one its statements arrived at, or,
\* where its statements are not followed (blockPc stays idle), either one.
BlockReturned(res) ==
  \/ blockPc = "idle"
  \/ blockPc = (IF res = "ok" THEN "ret_ok" ELSE "ret_err")

\* The call of process_* for the item has its result: for a block the one of
\* process_new_block, for a pending transaction the one
\* process_pending_transaction arrived at.
ItemReturned(f, res) ==
  IF f = "tx" THEN txPc = (IF res = "ok" THEN "ret_ok" ELSE "ret_err") ELSE BlockReturned(res)

\* if let Err(e) = process_*(...).await { error!(...) }: the error is logged,
\* and either way the inner loop goes round to its select!.
AfterItemResubscribe(res) == IF res = "err" THEN "Subscribing" ELSE "Streaming"
AfterItem(res) == "Streaming"

\* process_new_block / process_pending_transaction returned res (ok, or err
\* which is only logged): next iteration of the inner loop.
ProcessDone(f, res) ==
  /\ feedState[f] = "Processing"
  /\ ItemReturned(f, res)
  /\ feedState' = [feedState EXCEPT ![f] = AfterItem(res)]
  /\ lastProc' = [lastProc EXCEPT ![f] = res]
  /\ inProcess' = [inProcess EXCEPT ![f] = @ \ {handed[f][Len(handed[f])]}]
  /\ txPc' = IF f = "tx" THEN "idle" ELSE txPc
  /\ IF f = "block"
       THEN /\ blockPc' = "idle"
            /\ blockTxs' = <<>>
            /\ blockRest' = <<>>
            /\ confirmedLog' = <<>>
            /\ confirmErrs' = {}
       ELSE UNCHANGED blockVars
  /\ UNCHANGED <<pendVars,
                 retry_count, stopKind, streamEnded, consecFails, sleeps, delay, recovered,
                 yielded, handed, gasVars, shutdownVars, simVars>>

\* The provider closes the subscription: stream.next() yields None from now
\* on. The pattern Some(item) does not match, select! disables that branch
\* and waits on shutdown_rx.recv() alone; the inner loop has no other exit.
StreamEnd(f) ==
  /\ feedState[f] = "Streaming"
  /\ ~streamEnded[f]
  /\ streamEnded' = [streamEnded EXCEPT ![f] = TRUE]
  /\ UNCHANGED <<pipeVars, feedState, retry_count, stopKind, consecFails, sleeps, delay, recovered,
                 sinkVars, gasVars, shutdownVars, simVars>>

\* shutdown_rx.recv() is polled in the same select!, so only between items.
ShutdownPolledWhileBusy(f) == feedState[f] \in {"Streaming", "Processing"}
ShutdownPolled(f) == feedState[f] = "Streaming"

\* select!: _ = shutdown_rx.recv() => break 'outer. The task returns: its
\* stream and its other locals are dropped.
FeedRecvShutdown(f) ==
  /\ ShutdownPolled(f)
  /\ RecvReady
  /\ shutdown_chan' = ChanAfterRecv
  /\ feedState' = [feedState EXCEPT ![f] = "Stopped"]
  /\ stopKind' = [stopKind EXCEPT ![f] = "clean"]
  /\ streamEnded' = [streamEnded EXCEPT ![f] = FALSE]
  /\ lastProc' = [lastProc EXCEPT ![f] = "none"]
  /\ UNCHANGED <<pipeVars, mainVars, retry_count, consecFails, sleeps, delay, recovered,
                 yielded, handed, inProcess, txPc, gasVars, shutdownPc, joined, sends,
                 firedInBackoff,
                 sendFailed, joinWarned, shutdownResult, simVars>>

\* The steps the supervisor task takes on its own once it is scheduled.
FeedStep(f) ==
  \/ SubscribeOk(f)
  \/ SubscribeErr(f)
  \/ BackoffElapsed(f)
  \/ \E res \in {"ok", "err"} : ProcessDone(f, res)


\* ================================================= gas-price monitor
\* select!: _ = interval.tick() => update_gas_price(...): the provider query
\* of BlockchainClient::get_gas_price is in flight.
GasTick ==
  /\ gasMon = "Waiting"
  /\ gasMon' = "Fetching"
  /\ UNCHANGED <<pipeVars, service_written, gasFetched, client_gas_price, service_gas_price,
                 feedVars, shutdownVars, simVars>>

\* gas_price.as_u64(): U256::as_u64 panics ("Integer overflow when casting
\* to u64") on a value that does not fit.
FitsU64(p) == p <= U64Max

\* http_provider.get_gas_price() returned Ok(p): get_gas_price stores
\* p.as_u64() in the client-level cache and hands p to update_gas_price. When
\* the cast panics, nothing is stored and the task ends by the panic.
GasFetchOk(p) ==
  /\ gasMon = "Fetching"
  /\ IF FitsU64(p)
       THEN /\ client_gas_price' = p
            /\ gasFetched' = p
            /\ gasMon' = "Updating"
       ELSE /\ gasMon' = "Panicked"
            /\ UNCHANGED <<client_gas_price, gasFetched>>
  /\ UNCHANGED <<pipeVars, service_written, service_gas_price, feedVars, shutdownVars, simVars>>

\* The provider query failed: update_gas_price returns Err, the loop warns.
GasFetchErr ==
  /\ gasMon = "Fetching"
  /\ gasMon' = "Waiting"
  /\ UNCHANGED <<pipeVars, service_written, gasFetched, client_gas_price, service_gas_price,
                 feedVars, shutdownVars, simVars>>

\* services.transaction_service.update_gas_price(gas_price)
GasServiceUpdate ==
  /\ gasMon = "Updating"
  /\ service_gas_price' = gasFetched
  /\ service_written' = (svcPc = "fetch" \/ svcOut.kind # "none")
  /\ gasFetched' = 0
  /\ gasMon' = "Waiting"
  /\ UNCHANGED <<pipeVars, client_gas_price, feedVars, shutdownVars, simVars>>

\* select!: _ = shutdown_rx.recv() => break.
GasRecvShutdown ==
  /\ gasMon = "Waiting"
  /\ RecvReady
  /\ shutdown_chan' = ChanAfterRecv
  /\ gasMon' = "Stopped"
  /\ UNCHANGED <<pipeVars, mainVars, service_written, gasFetched, client_gas_price,
                 service_gas_price,
                 shutdownPc, joined, sends, firedInBackoff,
                 sendFailed, joinWarned, shutdownResult, feedVars, simVars>>

GasStep ==
  \/ GasTick
  \/ \E p \in ProviderPrices : GasFetchOk(p)
  \/ GasFetchErr
  \/ GasServiceUpdate

\* ========================================================== shutdown
\* The task's future has completed by a panic: its JoinHandle yields Err.
TaskPanicked(t) == IF t = "gas" THEN gasMon = "Panicked" ELSE stopKind[t] = "panic"

\* The task's future has completed (it returned or it panicked): its
\* JoinHandle is ready and its receiver is dropped.
TaskStopped(t) ==
  IF t = "gas" THEN gasMon \in {"Stopped", "Panicked"} ELSE feedState[t] = "Stopped"

AllTasksStopped == \A i \in 1..Len(Tasks) : TaskStopped(Tasks[i])

\* shutdown(self) takes the handle by value: it runs at most once.
ShutdownCallableAgain == shutdownPc # "returned" /\ shutdown_chan < ChannelCapacity
ShutdownCallable == shutdownPc = "idle"

\* let _ = self.shutdown_sender.send(()).await: one message is queued; with
\* every receiver gone the send fails and the error is dropped.
ShutdownSend ==
  /\ ShutdownCallable
  /\ shutdown_chan < ChannelCapacity
  /\ IF AllTasksStopped
       THEN /\ sendFailed' = TRUE
            /\ UNCHANGED <<shutdown_chan, sends, firedInBackoff>>
       ELSE /\ shutdown_chan' = shutdown_chan + 1
            /\ sends' = sends + 1
            /\ firedInBackoff' = {f \in Feeds : feedState[f] = "Backoff"}
            /\ sendFailed' = sendFailed
  /\ shutdownPc' = "joining"
  /\ UNCHANGED <<pipeVars, mainVars, joined, joinWarned, shutdownResult, feedVars, gasVars,
                 simVars>>

\* for task in self.tasks { task.await }: the next task, in spawn order, has
\* finished.
\* if let Err(e) = task.await { warn!(...) }: a join error is logged and the
\* loop goes on; it is not returned with `?`.
JoinErrorReturned == TRUE
JoinErrorAborts == FALSE

ShutdownJoin ==
  /\ shutdownPc = "joining"
  /\ joined < Len(Tasks)
  /\ LET t == Tasks[joined + 1] IN
       /\ TaskStopped(t)
       /\ IF TaskPanicked(t) /\ JoinErrorAborts
            THEN /\ shutdownPc' = "returned"
                 /\ shutdownResult' = "err"
                 /\ UNCHANGED <<joined, joinWarned>>
            ELSE /\ joined' = joined + 1
                 /\ joinWarned' = IF TaskPanicked(t) THEN joinWarned \cup {t} ELSE joinWarned
                 /\ UNCHANGED <<shutdownPc, shutdownResult>>
  /\ UNCHANGED <<pipeVars, mainVars, shutdown_chan, sends, firedInBackoff, sendFailed,
                 feedVars, gasVars, simVars>>

\* Ok(()): shutdown() returns and the handle, with its sender, is dropped.
ShutdownReturn ==
  /\ shutdownPc = "joining"
  /\ joined = Len(Tasks)
  /\ shutdownPc' = "returned"
  /\ shutdownResult' = "ok"
  /\ UNCHANGED <<pipeVars, mainVars, shutdown_chan, joined, sends, firedInBackoff, sendFailed,
                 joinWarned, feedVars, gasVars, simVars>>

\* ------------------------------------------------------------- main
\* signal::ctrl_c().await returned, Ok or Err: either way main goes on to
\* the graceful shutdown.
MainSignal ==
  /\ mainPc = "running"
  /\ mainPc' = "api"
  /\ UNCHANGED <<pipeVars, apiDown, servicesDown, shutdown_chan, shutdownPc, joined, sends,
                 firedInBackoff, sendFailed, joinWarned, shutdownResult, feedVars, gasVars,
                 simVars>>

\* api_server.shutdown().await?: ApiServer::shutdown logs and returns Ok(()).
MainApiShutdown ==
  /\ mainPc = "api"
  /\ apiDown' = TRUE
  /\ mainPc' = "monitor"
  /\ UNCHANGED <<pipeVars, servicesDown, shutdown_chan, shutdownPc, joined, sends,
                 firedInBackoff, sendFailed, joinWarned, shutdownResult, feedVars, gasVars,
                 simVars>>

\* monitor_handle.shutdown() is called by main.
MainMonitorShutdown ==
  /\ mainPc = "monitor"
  /\ ShutdownSend

\* monitor_handle.shutdown().await has completed: main goes on only then.
MonitorShutdownStarted == shutdownPc # "idle"
MonitorReturned == shutdownPc = "returned"

\* monitor_handle.shutdown().await?: Ok goes on to the services, Err is
\* returned by main.
MainAfterMonitor ==
  /\ mainPc = "monitor"
  /\ MonitorReturned
  /\ mainPc' = IF shutdownResult = "err" THEN "failed" ELSE "services"
  /\ UNCHANGED <<pipeVars, apiDown, servicesDown, shutdown_chan, shutdownPc, joined, sends,
                 firedInBackoff, sendFailed, joinWarned, shutdownResult, feedVars, gasVars,
                 simVars>>

\* ServiceContext::shutdown: the services in the order they are shut down.
ServiceOrder == <<"transaction", "block_building", "liquid_staking", "simulation">>

\* What a service's shutdown() can return. TransactionService::shutdown and
\* SimulationService::shutdown log and return Ok(()); the two other services
\* return a Result that is passed on with `?`.
ShutdownResults(s) == IF s \in {"transaction", "simulation"} THEN {"ok"} ELSE {"ok", "err"}

\* self.<service>.shutdown().await? for the next service: Ok goes on to the
\* one after it, Err is returned by ServiceContext::shutdown and by main.
ServiceShutdown(res) ==
  /\ mainPc = "services"
  /\ servicesDown < Len(ServiceOrder)
  /\ res \in ShutdownResults(ServiceOrder[servicesDown + 1])
  /\ IF res = "ok"
       THEN servicesDown' = servicesDown + 1 /\ mainPc' = mainPc
       ELSE servicesDown' = servicesDown /\ mainPc' = "failed"
  /\ UNCHANGED <<pipeVars, apiDown, shutdown_chan, shutdownPc, joined, sends,
                 firedInBackoff, sendFailed, joinWarned, shutdownResult, feedVars, gasVars,
                 simVars>>

\* services.shutdown() returned Ok(()): "Shutdown complete", Ok(()).
MainReturn ==
  /\ mainPc = "services"
  /\ servicesDown = Len(ServiceOrder)
  /\ mainPc' = "done"
  /\ UNCHANGED <<pipeVars, apiDown, servicesDown, shutdown_chan, shutdownPc, joined, sends,
                 firedInBackoff, sendFailed, joinWarned, shutdownResult, feedVars, gasVars,
                 simVars>>

\* ========================================================= evaluator
\* The bounded unsigned domain standing for U256.
WordMax == 1023

SatSub(a, b) == IF a > b THEN a - b ELSE 0
SatMul(a, b) == IF a * b > WordMax THEN WordMax ELSE a * b
SatAdd(a, b) == IF a + b > WordMax THEN WordMax ELSE a + b

\* gas_limit.saturating_mul(U256::from(80)).div(U256::from(100))
EstimatedGasUsed(gas) == SatMul(gas, GasUsedNum) \div GasUsedDen

\* tx.gas_price.unwrap_or(U256::zero())
TxGasPrice(tx) == IF tx.gas_price = NoPrice THEN 0 ELSE tx.gas_price

\* profit of simulate_transaction for a transaction and the gas price read
ProfitWrapping(tx, current) ==
  SatMul((TxGasPrice(tx) - current) % (WordMax + 1), EstimatedGasUsed(tx.gas))
Profit(tx, current) ==
  IF TxGasPrice(tx) > current
    THEN SatMul(SatSub(TxGasPrice(tx), current), EstimatedGasUsed(tx.gas))
    ELSE 0

\* simulate_transaction(&tx) is called; it waits at semaphore.acquire().
SimCall(c, tx) ==
  /\ simPc[c] = "idle"
  /\ simPc' = [simPc EXCEPT ![c] = "acquire"]
  /\ simTx' = [simTx EXCEPT ![c] = tx]
  /\ simOut' = [simOut EXCEPT ![c] = NoOut]
  /\ current_gas_price' = [current_gas_price EXCEPT ![c] = 0]
  /\ UNCHANGED <<pipeVars, svcVars, bundleVars, permits, feedVars, gasVars, shutdownVars>>

\* A permit is free.
CanAcquireAlways == TRUE
CanAcquire == permits > 0

\* let _permit = self.semaphore.acquire().await?;
SimAcquire(c) ==
  /\ simPc[c] = "acquire"
  /\ CanAcquire
  /\ permits' = permits - 1
  /\ simPc' = [simPc EXCEPT ![c] = "cached"]
  /\ UNCHANGED <<pipeVars, current_gas_price, svcVars, bundleVars, simTx, simOut, feedVars, gasVars,
                 shutdownVars>>

\* The permit count after _permit is dropped at the end of the call.
PermitsAfterLeak == permits
PermitsAfterDrop == permits + 1

\* simulate_transaction returns `out`; _permit goes out of scope. The caller
\* still owns the transaction it lent.
SimReturn(c, out) ==
  /\ simPc' = [simPc EXCEPT ![c] = "idle"]
  /\ simOut' = [simOut EXCEPT ![c] = out]
  /\ simTx' = simTx
  /\ permits' = PermitsAfterDrop

\* What the body of an admitted evaluation needs from the slot pool before it
\* goes on: nothing. After the acquisition the body only calls the client
\* (get_cached_gas_price), which never touches the semaphore.
SecondSlotAwaited == permits > 0
SecondSlotFree == TRUE

\* get_cached_gas_price(): the cached value when it is non-zero, else the
\* provider is asked (get_gas_price).
SimCached(c) ==
  /\ simPc[c] = "cached"
  /\ SecondSlotFree
  /\ IF client_gas_price > 0
       THEN /\ current_gas_price' = [current_gas_price EXCEPT ![c] = client_gas_price]
            /\ SimReturn(c, Ok(Profit(simTx[c], client_gas_price)))
       ELSE /\ simPc' = [simPc EXCEPT ![c] = "fetch"]
            /\ UNCHANGED <<permits, simTx, simOut, current_gas_price>>
  /\ UNCHANGED <<pipeVars, svcVars, bundleVars, feedVars, gasVars, shutdownVars>>

\* self.current_gas_price.store(...): the client's store writes the client's
\* own AtomicU64; the service-level RwLock is another cell, which the client
\* does not know of.
ServiceSyncedOnStore(p) == p
ServiceAfterClientStore(p) == service_gas_price

\* The provider answered p: get_gas_price caches p.as_u64() and the profit is
\* computed from p. When the cast panics the call unwinds: nothing is cached,
\* _permit is dropped by the unwinding.
SimFetchOk(c, p) ==
  /\ simPc[c] = "fetch"
  /\ IF FitsU64(p)
       THEN /\ client_gas_price' = p
            /\ service_gas_price' = ServiceAfterClientStore(p)
            /\ current_gas_price' = [current_gas_price EXCEPT ![c] = p]
            /\ SimReturn(c, Ok(Profit(simTx[c], p)))
       ELSE /\ client_gas_price' = client_gas_price
            /\ service_gas_price' = service_gas_price
            /\ current_gas_price' = current_gas_price
            /\ SimReturn(c, Panicked)
  /\ UNCHANGED <<pipeVars,
                 service_written, svcVars, bundleVars, gasMon, gasFetched,
                 feedVars, shutdownVars>>

\* The evaluation was ended by a timeout while its query was outstanding.
TimedOut == [kind |-> "timeout", profit |-> 0]

\* let timeout = Duration::from_millis(max_simulation_time_ms) is computed
\* and never used: nothing races the awaited query, so the wait ends with an
\* error only when the provider query itself has failed.
FetchFailuresWithTimeout == {Err, TimedOut}
FetchFailures == {Err}

\* The provider query failed: `?` returns the error.
SimFetchErr(c) ==
  /\ simPc[c] = "fetch"
  /\ \E out \in FetchFailures : SimReturn(c, out)
  /\ UNCHANGED <<pipeVars, current_gas_price, svcVars, bundleVars, feedVars, gasVars, shutdownVars>>

\* ======================================= pending-transaction pipeline
\* BlockchainMonitor::process_pending_transaction, called by the transaction
\* feed for the hash it was handed, and
\* TransactionService::process_pending_transaction behind it.

\* The item of the transaction feed that is in process.
CurItem == handed["tx"][Len(handed["tx"])]

\* get_transaction(tx_hash) returned Ok(Some(tx)): the transaction service
\* stores it (the storage helpers always return Ok) and calls
\* simulate_transaction(&tx), which waits at semaphore.acquire().
TxHandOver(tx) ==
  /\ feedState["tx"] = "Processing"
  /\ txPc = "get_tx"
  /\ txPc' = "sim"
  /\ simPc' = [simPc EXCEPT ![FeedCaller] = "acquire"]
  /\ simTx' = [simTx EXCEPT ![FeedCaller] = tx]
  /\ simOut' = [simOut EXCEPT ![FeedCaller] = NoOut]
  /\ current_gas_price' = [current_gas_price EXCEPT ![FeedCaller] = 0]
  /\ UNCHANGED <<blockVars, svcVars, bundleVars, feedState, retry_count, stopKind, streamEnded,
                 consecFails, sleeps, delay,
                 recovered, yielded, handed, inProcess, lastProc,
                 permits, gasVars, shutdownVars>>

\* get_transaction returned Ok(None): nothing to do, Ok(()). The transaction
\* service is not called: no counter, no storage call.
TxGetNoneCounted ==
  /\ feedState["tx"] = "Processing"
  /\ txPc = "get_tx"
  /\ txPc' = "ret_ok"
  /\ received' = received + 1
  /\ stored' = stored \cup {CurItem}
  /\ UNCHANGED <<processed, dropped, profitRec, flagged, blockVars,
                 feedState, retry_count, stopKind, streamEnded, consecFails, sleeps, delay,
                 recovered, yielded, handed, inProcess, lastProc,
                 simVars, gasVars, shutdownVars>>
TxGetNone ==
  /\ feedState["tx"] = "Processing"
  /\ txPc = "get_tx"
  /\ txPc' = "ret_ok"
  /\ UNCHANGED <<pipeVars,
                 feedState, retry_count, stopKind, streamEnded, consecFails, sleeps, delay,
                 recovered, yielded, handed, inProcess, lastProc,
                 simVars, gasVars, shutdownVars>>

\* get_transaction returned Err: `?` returns it.
TxGetErr ==
  /\ feedState["tx"] = "Processing"
  /\ txPc = "get_tx"
  /\ txPc' = "ret_err"
  /\ UNCHANGED <<pipeVars,
                 feedState, retry_count, stopKind, streamEnded, consecFails, sleeps, delay,
                 recovered, yielded, handed, inProcess, lastProc,
                 simVars, gasVars, shutdownVars>>

\* Err(e) => { warn!(...); counter } and then Ok(()): the failed evaluation
\* is not retried and not returned to the feed.
AfterSimErrorRetry == "get_tx"
AfterSimError == "ret_ok"

\* simulate_transaction returned: Ok(profit) is recorded (and the transaction
\* marked when profit > 0), Err is logged; either way the result is Ok(()).
TxSimReturned ==
  /\ txPc = "sim"
  /\ simPc[FeedCaller] = "idle"
  /\ simOut[FeedCaller].kind \in {"ok", "err"}
  /\ txPc' = IF simOut[FeedCaller].kind = "err" THEN AfterSimError ELSE "ret_ok"
  /\ simOut' = [simOut EXCEPT ![FeedCaller] = NoOut]
  /\ current_gas_price' = [current_gas_price EXCEPT ![FeedCaller] = 0]
  /\ simTx' = [simTx EXCEPT ![FeedCaller] = NoTx]
  /\ UNCHANGED <<blockVars, svcVars, bundleVars, feedState, retry_count, stopKind, streamEnded,
                 consecFails, sleeps, delay,
                 recovered, yielded, handed, inProcess, lastProc,
                 permits, simPc, gasVars, shutdownVars>>

\* What the handler emits is fire-and-forget (counters of the metrics sink,
\* calls of the storage helpers): nothing in the monitor reads it back. The
\* monitor's specification leaves it out; TxGetSomeRecorded and
\* TxSimDoneRecorded are the same steps with it.
TxGetSome(tx) == TxHandOver(tx) /\ UNCHANGED pendVars
TxSimDone == TxSimReturned /\ UNCHANGED pendVars

\* if profit > U256::zero() { mark_transaction_for_inclusion }
IsProfitableOrZero(profit) == profit >= 0
IsProfitable(profit) == profit > 0

\* metrics::counter!("transactions_received_total", 1) and store_transaction,
\* then the evaluation is called.
TxGetSomeRecorded(tx) ==
  /\ TxHandOver(tx)
  /\ received' = received + 1
  /\ stored' = stored \cup {CurItem}
  /\ UNCHANGED <<processed, dropped, profitRec, flagged>>

\* match simulation_result: Ok(profit) => update_transaction_profit, the mark
\* when profitable, and the processed counter; Err(e) => the dropped counter.
TxSimDoneBothCounted ==
  /\ TxSimReturned
  /\ LET out == simOut[FeedCaller] IN
       IF out.kind = "ok"
         THEN /\ profitRec' = profitRec \cup {<<CurItem, out.profit>>}
              /\ flagged' = IF IsProfitable(out.profit) THEN flagged \cup {CurItem} ELSE flagged
              /\ processed' = processed + 1
              /\ dropped' = dropped + 1
         ELSE /\ dropped' = dropped + 1
              /\ UNCHANGED <<processed, profitRec, flagged>>
  /\ UNCHANGED <<received, stored>>
TxSimDoneRecorded ==
  /\ TxSimReturned
  /\ LET out == simOut[FeedCaller] IN
       IF out.kind = "ok"
         THEN /\ profitRec' = profitRec \cup {<<CurItem, out.profit>>}
              /\ flagged' = IF IsProfitable(out.profit) THEN flagged \cup {CurItem} ELSE flagged
              /\ processed' = processed + 1
              /\ dropped' = dropped
         ELSE /\ dropped' = dropped + 1
              /\ UNCHANGED <<processed, profitRec, flagged>>
  /\ UNCHANGED <<received, stored>>

\* simulate_transaction panicked (the u64 cast in get_gas_price): the panic
\* unwinds through process_pending_transaction and ends the feed's task.
TxPanic ==
  /\ txPc = "sim"
  /\ simPc[FeedCaller] = "idle"
  /\ simOut[FeedCaller].kind = "panic"
  /\ txPc' = "idle"
  /\ simOut' = [simOut EXCEPT ![FeedCaller] = NoOut]
  /\ current_gas_price' = [current_gas_price EXCEPT ![FeedCaller] = 0]
  /\ simTx' = [simTx EXCEPT ![FeedCaller] = NoTx]
  /\ feedState' = [feedState EXCEPT !["tx"] = "Stopped"]
  /\ stopKind' = [stopKind EXCEPT !["tx"] = "panic"]
  /\ lastProc' = [lastProc EXCEPT !["tx"] = "none"]
  /\ UNCHANGED <<pipeVars,
                 svcVars, bundleVars, retry_count, streamEnded, consecFails, sleeps, delay,
                 recovered, yielded, handed, inProcess,
                 permits, simPc, gasVars, shutdownVars>>

\* The steps of the transaction feed's task inside process_pending_transaction.
TxStep ==
  \/ \E tx \in SimTxs : TxGetSome(tx)
  \/ TxGetNone
  \/ TxGetErr
  \/ SimAcquire(FeedCaller)
  \/ SimCached(FeedCaller)
  \/ \E p \in ProviderPrices : SimFetchOk(FeedCaller, p)
  \/ SimFetchErr(FeedCaller)
  \/ TxSimDone
  \/ TxPanic

\* ================================================ process_new_block
\* A block's transactions, numbered in block order.
Blocks == {[i \in 1..n |-> i] : n \in 0..MaxBlockTxs}

\* process_new_block(block) is entered for the block the feed handed over:
\* the gauge is set and the for loop over block.transactions begins.
BlockStart(txs) ==
  /\ feedState["block"] = "Processing"
  /\ blockPc = "idle"
  /\ blockPc' = "loop"
  /\ blockTxs' = txs
  /\ blockRest' = txs
  /\ confirmedLog' = <<>>
  /\ confirmErrs' = {}
  /\ UNCHANGED <<pendVars, feedVars, gasVars, shutdownVars, simVars>>

\* if let Err(e) = ...process_confirmed_transaction(tx).await { warn!(...) }:
\* the error is logged and the loop goes on.
ConfirmErrorReturned == TRUE
ConfirmErrorAborts == FALSE

\* process_confirmed_transaction: update_transaction_status only; no counter
\* is incremented.
ConfirmedCounted(n) == n + 1
ConfirmedCount(n) == n

\* One round of the for loop: the next transaction of the block goes to
\* process_confirmed_transaction, which updates its status and returns res.
\* (update_transaction_status, where the database write belongs, returns
\* Ok(()) as written; the handler's type is Result<()>, and the loop's
\* handling of an Err is followed as well.)
BlockConfirm(res) ==
  /\ blockPc = "loop"
  /\ blockRest # <<>>
  /\ LET tx == Head(blockRest) IN
       /\ confirmedLog' = Append(confirmedLog, tx)
       /\ confirmErrs' = IF res = "err" THEN confirmErrs \cup {tx} ELSE confirmErrs
  /\ blockRest' = Tail(blockRest)
  /\ blockPc' = IF res = "err" /\ ConfirmErrorAborts THEN "ret_err" ELSE "loop"
  /\ received' = ConfirmedCount(received)
  /\ UNCHANGED <<blockTxs, processed, dropped, stored, profitRec, flagged,
                 feedVars, gasVars, shutdownVars, simVars>>

\* The statement after the for loop is reached when the loop is over.
ForwardReachedEarly(rest) == TRUE
ForwardReached(rest) == rest = <<>>

\* services.block_building_service.process_new_block(block).await?: the
\* block builder returns res; `?` returns its error, else Ok(()).
BlockForward(res) ==
  /\ blockPc = "loop"
  /\ ForwardReached(blockRest)
  /\ blockPc' = IF res = "ok" THEN "ret_ok" ELSE "ret_err"
  /\ UNCHANGED <<blockTxs, blockRest, confirmedLog, confirmErrs, pendVars,
                 feedVars, gasVars, shutdownVars, simVars>>

\* process_new_block, followed statement by statement, returns to the feed.
BlockDone(res) ==
  /\ blockPc # "idle"
  /\ ProcessDone("block", res)

\* ==================================================== specifications
Next ==
  \/ \E f \in Feeds : FeedStep(f)
  \/ \E f \in Feeds : StreamItem(f)
  \/ \E f \in Feeds : StreamEnd(f)
  \/ \E f \in Feeds : FeedRecvShutdown(f)
  \/ TxStep
  \/ GasStep
  \/ GasRecvShutdown
  \/ ShutdownSend
  \/ ShutdownJoin
  \/ ShutdownReturn

Spec == Init /\ [][Next]_vars

\* Every spawned task that can take a step is eventually polled, and select!
\* picks among its ready branches at random, so a branch that is ready again
\* and again is eventually taken. The provider's deliveries (StreamItem,
\* StreamEnd) and the call of shutdown() are up to the environment.
FairSpec ==
  /\ Spec
  /\ \A f \in Feeds : WF_vars(FeedStep(f)) /\ SF_vars(FeedRecvShutdown(f))
  /\ WF_vars(TxStep)
  /\ WF_vars(GasStep)
  /\ SF_vars(GasRecvShutdown)
  /\ WF_vars(ShutdownJoin)
  /\ WF_vars(ShutdownReturn)

\* The process from the start of the monitor to the end of main: the monitor's
\* tasks, and main, which waits for the signal and then shuts down.
NextMain ==
  \/ \E f \in Feeds : FeedStep(f)
  \/ \E f \in Feeds : StreamItem(f)
  \/ \E f \in Feeds : StreamEnd(f)
  \/ \E f \in Feeds : FeedRecvShutdown(f)
  \/ TxStep
  \/ GasStep
  \/ GasRecvShutdown
  \/ MainSignal
  \/ MainApiShutdown
  \/ MainMonitorShutdown
  \/ ShutdownJoin
  \/ ShutdownReturn
  \/ MainAfterMonitor
  \/ \E res \in {"ok", "err"} : ServiceShutdown(res)
  \/ MainReturn

SpecMain == Init /\ [][NextMain]_vars

NextEval ==
  \/ \E c \in Callers, tx \in SimTxs : SimCall(c, tx)
  \/ \E c \in Callers : SimAcquire(c)
  \/ \E c \in Callers : SimCached(c)
  \/ \E c \in Callers, p \in ProviderPrices : SimFetchOk(c, p)
  \/ \E c \in Callers : SimFetchErr(c)

SpecEval == Init /\ [][NextEval]_vars

\* The provider's answer to the query of caller c, whatever it is.
FetchAnswered(c) == (\E p \in ProviderPrices : SimFetchOk(c, p)) \/ SimFetchErr(c)

\* The transaction of the callers whose only part is to compete for the
\* slots: the slot pool does not look at the transaction.
SlotTx == [gas_price |-> MaxGasPrice, gas |-> SimGasLimit]

\* The evaluator under callers that call again and again.
NextSlots ==
  \/ \E c \in Callers : SimCall(c, SlotTx)
  \/ \E c \in Callers : SimAcquire(c)
  \/ \E c \in Callers : SimCached(c)
  \/ \E c \in Callers : FetchAnswered(c)

SpecSlots == Init /\ [][NextSlots]_vars

\* tokio's Semaphore is fair: permits are handed out in the order they were
\* asked for, so a waiter is served once permits have been released often
\* enough (strong fairness of the acquisition). An admitted evaluation is a
\* polled future, and every provider query is answered or fails (weak
\* fairness of its steps). New calls are up to the callers.
FairSpecEval ==
  /\ SpecSlots
  /\ \A c \in Callers : SF_vars(SimAcquire(c))
  /\ \A c \in Callers : WF_vars(SimCached(c))
  /\ \A c \in Callers : WF_vars(FetchAnswered(c))

\* simulate_transaction as a function of the transaction and of the cache:
\* one caller, transactions over the whole domain of gas prices and gas
\* limits, and a start from any cached price (both caches as a completed
\* refresh leaves them).
TxPrices == {NoPrice} \cup ProviderPrices \cup {WordMax}
ProfitTxs == [gas_price : TxPrices, gas : 0..WordMax]

InitProfit ==
  /\ InitRest
  /\ client_gas_price \in GasPrices
  /\ service_gas_price = client_gas_price

\* The caller of the single-caller specifications.
SoloCaller == 1

\* The one call of a run: nothing has been evaluated yet.
ProfitCall(tx) ==
  /\ simOut[SoloCaller] = NoOut
  /\ SimCall(SoloCaller, tx)

NextProfit ==
  \/ \E tx \in ProfitTxs : ProfitCall(tx)
  \/ SimAcquire(SoloCaller)
  \/ SimCached(SoloCaller)
  \/ \E p \in ProviderPrices : SimFetchOk(SoloCaller, p)
  \/ SimFetchErr(SoloCaller)

SpecProfit == InitProfit /\ [][NextProfit]_vars

\* Both feeds with what they do to an item followed statement by statement:
\* process_new_block, and process_pending_transaction with what it emits.
\* The pending transactions carry no gas price or any price the provider
\* can name.
PipeTxs == [gas_price : {NoPrice} \cup ProviderPrices, gas : {SimGasLimit}]

NextPipeline ==
  \/ \E f \in Feeds : SubscribeOk(f)
  \/ \E f \in Feeds : SubscribeErr(f)
  \/ \E f \in Feeds : BackoffElapsed(f)
  \/ \E f \in Feeds : StreamItem(f)
  \/ \E txs \in Blocks : BlockStart(txs)
  \/ \E res \in {"ok", "err"} : BlockConfirm(res)
  \/ \E res \in {"ok", "err"} : BlockForward(res)
  \/ \E res \in {"ok", "err"} : BlockDone(res)
  \/ \E tx \in PipeTxs : TxGetSomeRecorded(tx)
  \/ TxGetNone
  \/ TxGetErr
  \/ SimAcquire(FeedCaller)
  \/ SimCached(FeedCaller)
  \/ \E p \in ProviderPrices : SimFetchOk(FeedCaller, p)
  \/ SimFetchErr(FeedCaller)
  \/ TxSimDoneRecorded
  \/ TxPanic
  \/ \E res \in {"ok", "err"} : ProcessDone("tx", res)

SpecPipeline == InitProfit /\ [][NextPipeline]_vars

\* --------------------------------- TransactionService::get_gas_price
\* get_gas_price() is called: under the read lock, a non-zero service-level
\* price is returned; on zero the lock is dropped and the client is asked.
SvcGet ==
  /\ svcPc = "idle"
  /\ service_written' = FALSE
  /\ IF service_gas_price = 0
       THEN /\ svcPc' = "fetch"
            /\ svcOut' = [kind |-> "none", price |-> 0]
       ELSE /\ svcPc' = "idle"
            /\ svcOut' = [kind |-> "hit", price |-> service_gas_price]
  /\ UNCHANGED <<pipeVars,
                 gasMon, gasFetched, client_gas_price, service_gas_price, permits, simPc, simTx,
                 simOut, current_gas_price, bundleVars, feedVars, shutdownVars>>

\* return self.blockchain_client.get_gas_price().await with the provider's
\* answer p: the client stores p.as_u64() in its own cache and p is returned.
\* The service-level cache is not written.
SvcFetchOk(p) ==
  /\ svcPc = "fetch"
  /\ svcPc' = "idle"
  /\ IF FitsU64(p)
       THEN /\ client_gas_price' = p
            /\ svcOut' = [kind |-> "fetched", price |-> p]
       ELSE /\ client_gas_price' = client_gas_price
            /\ svcOut' = [kind |-> "panic", price |-> 0]
  /\ UNCHANGED <<pipeVars,
                 gasMon, gasFetched, service_gas_price, service_written, permits, simPc, simTx,
                 simOut, current_gas_price, bundleVars, feedVars, shutdownVars>>

\* The provider query failed: the error is returned.
SvcFetchErr ==
  /\ svcPc = "fetch"
  /\ svcPc' = "idle"
  /\ svcOut' = [kind |-> "err", price |-> 0]
  /\ UNCHANGED <<pipeVars, gasVars, permits, simPc, simTx, simOut, current_gas_price, bundleVars,
                 feedVars, shutdownVars>>

\* Calls of get_gas_price beside the gas monitor, the writer of both caches.
NextService ==
  \/ SvcGet
  \/ \E p \in ProviderPrices : SvcFetchOk(p)
  \/ SvcFetchErr
  \/ GasStep

SpecService == Init /\ [][NextService]_vars

\* ------------------------------------------- estimate_bundle_profit
\* The members a bundle is made of: one without gas price, one with a small
\* premium, one whose profit alone reaches the largest value.
BundleTxs ==
  { [gas_price |-> NoPrice, gas |-> SimGasLimit],
    [gas_price |-> U64Max + 1, gas |-> SimGasLimit],
    [gas_price |-> WordMax, gas |-> WordMax] }

RECURSIVE SeqsUpTo(_, _)
SeqsUpTo(S, n) ==
  IF n = 0 THEN {<<>>}
  ELSE LET shorter == SeqsUpTo(S, n - 1) IN
         shorter \cup {Append(q, x) : q \in shorter, x \in S}

Bundles == SeqsUpTo(BundleTxs, MaxBundle)

\* estimate_bundle_profit(transactions) is called: total_profit = U256::zero().
BundleCall(txs) ==
  /\ bundlePc = "idle"
  /\ bundlePc' = "loop"
  /\ bundleRest' = txs
  /\ bundleTxs' = txs
  /\ total_profit' = 0
  /\ UNCHANGED <<pipeVars, bundleSeen,
                 current_gas_price, svcVars, bundleOks, bundleFails, bundleResult, permits,
                 simPc, simTx, simOut,
                 feedVars, gasVars, shutdownVars>>

\* The member the for loop takes next: the first one not yet taken.
LastMember(rest) == rest[Len(rest)]
NextMember(rest) == Head(rest)

\* for tx in transactions: self.simulate_transaction(tx).await is called.
BundleNextTx ==
  /\ bundlePc = "loop"
  /\ bundleRest # <<>>
  /\ bundlePc' = "eval"
  /\ simPc' = [simPc EXCEPT ![SoloCaller] = "acquire"]
  /\ simTx' = [simTx EXCEPT ![SoloCaller] = NextMember(bundleRest)]
  /\ bundleSeen' = Append(bundleSeen, NextMember(bundleRest))
  /\ simOut' = [simOut EXCEPT ![SoloCaller] = NoOut]
  /\ current_gas_price' = [current_gas_price EXCEPT ![SoloCaller] = 0]
  /\ UNCHANGED <<pipeVars, svcVars, bundleRest, bundleTxs, total_profit, bundleOks, bundleFails,
                 bundleResult, permits,
                 feedVars, gasVars, shutdownVars>>

\* Err(e) => warn!(...): the member is skipped; its error is not returned.
MemberErrorReturned == TRUE
MemberErrorAborts == FALSE

\* The member's evaluation has its outcome: Ok(profit) is added with
\* saturating_add, Err is logged, and the loop goes on; a panic unwinds
\* through estimate_bundle_profit, which then never returns.
BundleMember ==
  /\ bundlePc = "eval"
  /\ simPc[SoloCaller] = "idle"
  /\ LET out == simOut[SoloCaller] IN
       /\ out.kind # "none"
       /\ CASE out.kind = "ok" ->
                 /\ total_profit' = SatAdd(total_profit, out.profit)
                 /\ bundleOks' = Append(bundleOks, out.profit)
                 /\ bundlePc' = "loop"
                 /\ UNCHANGED <<bundleFails, bundleResult>>
            [] out.kind = "err" ->
                 /\ bundleFails' = bundleFails + 1
                 /\ IF MemberErrorAborts
                      THEN bundlePc' = "returned" /\ bundleResult' = Err
                      ELSE bundlePc' = "loop" /\ bundleResult' = bundleResult
                 /\ UNCHANGED <<total_profit, bundleOks>>
            [] out.kind = "panic" ->
                 /\ bundlePc' = "returned"
                 /\ bundleResult' = Panicked
                 /\ UNCHANGED <<total_profit, bundleOks, bundleFails>>
  /\ bundleRest' = Tail(bundleRest)
  /\ UNCHANGED <<pipeVars, current_gas_price, svcVars, permits, simPc, simTx, simOut, feedVars,
                 gasVars, shutdownVars, bundleTxs, bundleSeen>>

\* The loop is over: Ok(total_profit).
BundleReturn ==
  /\ bundlePc = "loop"
  /\ bundleRest = <<>>
  /\ bundlePc' = "returned"
  /\ bundleResult' = Ok(total_profit)
  /\ UNCHANGED <<pipeVars, current_gas_price, svcVars, bundleRest, bundleTxs, bundleSeen,
                 total_profit, bundleOks, bundleFails, permits, simPc, simTx,
                 simOut, feedVars, gasVars, shutdownVars>>

NextBundle ==
  \/ \E txs \in Bundles : BundleCall(txs)
  \/ BundleNextTx
  \/ BundleMember
  \/ BundleReturn
  \/ SimAcquire(SoloCaller)
  \/ SimCached(SoloCaller)
  \/ \E p \in ProviderPrices : SimFetchOk(SoloCaller, p)
  \/ SimFetchErr(SoloCaller)

SpecBundle == InitProfit /\ [][NextBundle]_vars

\* The callers that evaluate single transactions beside the bundle: as many
\* as can hold every slot but one.
Occupiers == 2..WorkerThreads

\* One step of the evaluation the bundle is in.
BundleEvalStep ==
  \/ SimAcquire(SoloCaller)
  \/ SimCached(SoloCaller)
  \/ FetchAnswered(SoloCaller)

\* estimate_bundle_profit beside other users of the same SimulationService.
NextBundleShared ==
  \/ \E txs \in Bundles : BundleCall(txs)
  \/ BundleNextTx
  \/ BundleMember
  \/ BundleReturn
  \/ BundleEvalStep
  \/ \E c \in Occupiers : SimCall(c, SlotTx)
  \/ \E c \in Occupiers : SimAcquire(c)
  \/ \E c \in Occupiers : SimCached(c)
  \/ \E c \in Occupiers : FetchAnswered(c)

SpecBundleShared == InitProfit /\ [][NextBundleShared]_vars

\* The future of estimate_bundle_profit is polled while it can go on, and the
\* provider answers its queries; the other callers are under no obligation.
FairSpecBundle ==
  /\ SpecBundleShared
  /\ WF_vars(BundleNextTx)
  /\ WF_vars(BundleMember)
  /\ WF_vars(BundleReturn)
  /\ WF_vars(BundleEvalStep)

\* ============================================================ claims
\* Evaluations that hold a permit: past acquire(), not yet returned.
InFlight == {c \in AllCallers : simPc[c] \in {"cached", "fetch"}}

\* C1: whatever the number of callers, at most WorkerThreads evaluations have
\* acquired a slot and not yet returned.
C1_AtMostNRunning == Cardinality(InFlight) <= WorkerThreads

\* All slots are taken and a further caller is suspended at acquire().
C1_Witness ==
  /\ Cardinality(InFlight) = WorkerThreads
  /\ \E c \in Callers : simPc[c] = "acquire"

\* C2: free slots + evaluations in flight = WorkerThreads in every state, so
\* every return (a profit or an error) gives the slot back, and with nothing
\* in flight all WorkerThreads slots are free.
C2_SlotsConserved ==
  /\ permits + Cardinality(InFlight) = WorkerThreads
  /\ (InFlight = {} => permits = WorkerThreads)

\* Everything has returned, one call with an error and one with a profit.
C2_Witness ==
  /\ \A c \in Callers : simPc[c] = "idle"
  /\ \E c \in Callers : simOut[c].kind = "err"
  /\ \E c \in Callers : simOut[c].kind = "ok" /\ simOut[c].profit > 0
  /\ permits = WorkerThreads

\* The variables of feed f.
FeedView(f) == <<feedState[f], retry_count[f], stopKind[f], streamEnded[f],
                 consecFails[f], sleeps[f], delay[f], recovered[f],
                 yielded[f], handed[f], inProcess[f], lastProc[f]>>

\* C3: a feed stops for good exactly when max_retries + 1 = 11 subscribe
\* attempts have failed in a row; it has then slept in backoff max_retries
\* times, and afterwards it neither subscribes nor hands an item to the sink
\* (nothing of the feed changes any more).
C3_FatalAfterElevenFailures ==
  /\ [](\A f \in Feeds :
          /\ consecFails[f] <= max_retries + 1
          /\ (stopKind[f] = "fatal") <=> (consecFails[f] = max_retries + 1)
          /\ stopKind[f] = "fatal" =>
               feedState[f] = "Stopped" /\ sleeps[f] = max_retries)
  /\ [][\A f \in Feeds : stopKind[f] = "fatal" => FeedView(f)' = FeedView(f)]_vars

\* A feed has stopped after its 11th consecutive failure.
C3_Witness == \E f \in Feeds : stopKind[f] = "fatal" /\ consecFails[f] = 11

\* C4: the delay a supervisor sleeps with retry counter k is min(2^k, 64)
\* seconds; along a run of failures the delays never decrease and never
\* exceed 64.
C4_BackoffDelay ==
  /\ [](\A f \in Feeds :
          /\ delay[f] <= 64
          /\ feedState[f] = "Backoff" => delay[f] = Min(2 ^ retry_count[f], 64))
  /\ [][\A f \in Feeds : (delay[f] > 0 /\ delay'[f] > 0) => delay'[f] >= delay[f]]_vars

\* A sleep past the cap: the counter is above 6 and the delay is 64.
C4_Witness == \E f \in Feeds : feedState[f] = "Backoff" /\ retry_count[f] > 6 /\ delay[f] = 64

\* C5: the retry counter is the number of failures since the last successful
\* subscribe; it is 0 whenever the feed is consuming its stream.
C5_ResetOnSubscribe ==
  \A f \in Feeds :
    /\ retry_count[f] = consecFails[f]
    /\ feedState[f] \in {"Streaming", "Processing"} => retry_count[f] = 0

\* A feed streams on a subscription it obtained after failed attempts.
C5_Witness == \E f \in Feeds : feedState[f] = "Streaming" /\ recovered[f] /\ retry_count[f] = 0

\* C6: a stream that ends while the supervisor is in Streaming, with no
\* shutdown issued, leads to a new subscribe attempt.
C6_StreamEndResubscribes ==
  \A f \in Feeds :
    (feedState[f] = "Streaming" /\ streamEnded[f] /\ sends = 0)
      ~> (feedState[f] = "Subscribing" \/ sends > 0)

\* C7: a feed that was in its backoff sleep when the shutdown message was
\* sent leaves the sleep for Stopped, not for anything else.
C7_ShutdownAbandonsSleep ==
  [][\A f \in firedInBackoff :
       (feedState[f] = "Backoff" /\ feedState'[f] # "Backoff") => feedState'[f] = "Stopped"]_vars

\* C8: once the shutdown message has been sent no feed starts a new subscribe
\* attempt, and Stopped is never left.
C8_CleanStopFromAnyState ==
  [][\A f \in Feeds :
       /\ sends > 0 => ~(feedState[f] # "Subscribing" /\ feedState'[f] = "Subscribing")
       /\ feedState[f] = "Stopped" => feedState'[f] = "Stopped"]_vars

\* C9: once shutdown() has sent its message, all three tasks eventually exit
\* and shutdown() eventually returns.
C9_ShutdownCompletes ==
  (shutdownPc = "joining") ~> (shutdownPc = "returned" /\ AllTasksStopped)

\* C10: at most one message is ever sent on the shutdown channel, only the
\* send of shutdown() puts one there, and no task has stopped cleanly unless
\* shutdown() was called and sent it.
C10_FiredOnceByShutdown ==
  /\ [](/\ sends <= 1
        /\ shutdown_chan <= sends
        /\ \A f \in Feeds : stopKind[f] = "clean" => (sends = 1 /\ shutdownPc # "idle")
        /\ gasMon = "Stopped" => (sends = 1 /\ shutdownPc # "idle"))
  /\ [][(sends' # sends \/ shutdown_chan' > shutdown_chan) =>
          (shutdownPc = "idle" /\ shutdownPc' = "joining" /\ sends' = sends + 1)]_vars

\* A task has stopped cleanly on the one message shutdown() sent.
C10_Witness ==
  /\ sends = 1
  /\ shutdown_chan = 0
  /\ \/ \E f \in Feeds : stopKind[f] = "clean"
     \/ gasMon = "Stopped"

\* C11: shutdown() never returns an error. A send that fails (no task is
\* left to receive) is dropped, a join that fails is logged and the loop goes
\* on, so that shutdown() has returned exactly when it returned Ok, with all
\* three tasks awaited and every failed join among them logged.
C11_ShutdownReturnsOk ==
  /\ shutdownResult # "err"
  /\ (shutdownPc = "returned") <=> (shutdownResult = "ok")
  /\ shutdownPc = "returned" => joined = Len(Tasks)
  /\ joinWarned = {Tasks[i] : i \in {j \in 1..joined : TaskPanicked(Tasks[j])}}
  /\ sendFailed => (sends = 0 /\ shutdownPc # "idle")

\* shutdown() has returned although its send failed and the join of the
\* transaction feed failed; the gas monitor was still awaited after it.
C11_Witness ==
  /\ shutdownPc = "returned"
  /\ sendFailed
  /\ "tx" \in joinWarned
  /\ joined = Len(Tasks)

\* C12: the feeds are independent. A step one feed takes while subscribing or
\* backing off (a failed subscribe, the fatal stop, the end of a sleep)
\* changes nothing of the other feed, its retry counter included, and leaves
\* the gas monitor where it was; while one feed backs off or has stopped for
\* good the other feed can still take and process its items and the gas
\* monitor can still tick.
C12_FeedsIndependent ==
  /\ [](\A f \in Feeds : \A g \in Feeds \ {f} :
          (feedState[f] = "Backoff" \/ stopKind[f] = "fatal") =>
            /\ (feedState[g] = "Streaming" /\ ~streamEnded[g] /\ yielded[g] < MaxItems)
                 => ENABLED StreamItem(g)
            /\ (feedState[g] = "Processing" /\ g = "block") => ENABLED ProcessDone(g, "ok")
            /\ (feedState[g] = "Processing" /\ g = "tx") =>
                 ENABLED (TxStep \/ ProcessDone(g, "ok") \/ ProcessDone(g, "err"))
            /\ gasMon = "Waiting" => ENABLED GasTick)
  /\ [][\A f \in Feeds : \A g \in Feeds \ {f} :
         (feedState[f] \in {"Subscribing", "Backoff"} /\ FeedView(f)' # FeedView(f)) =>
           (FeedView(g)' = FeedView(g) /\ gasMon' = gasMon)]_vars

\* One feed has stopped for good while the other is processing its second
\* item and the gas monitor is fetching.
C12_Witness ==
  \E f \in Feeds : \E g \in Feeds \ {f} :
    /\ stopKind[f] = "fatal"
    /\ feedState[g] = "Processing"
    /\ handed[g] = <<1, 2>>
    /\ retry_count[g] = 0
    /\ gasMon = "Fetching"

\* C13: when the processing of an item returns an error, the supervisor is
\* back in Streaming on the same subscription (same stream, nothing yielded
\* or handed meanwhile) with its retry counter unchanged, and the next item
\* of the stream can be handed to the sink.
C13_ErrorKeepsStreaming ==
  /\ [](\A f \in Feeds :
          (feedState[f] = "Streaming" /\ lastProc[f] = "err"
             /\ ~streamEnded[f] /\ yielded[f] < MaxItems) => ENABLED StreamItem(f))
  /\ [][\A f \in Feeds :
         (inProcess[f] # {} /\ inProcess'[f] = {} /\ lastProc'[f] = "err") =>
           /\ feedState'[f] = "Streaming"
           /\ retry_count'[f] = retry_count[f]
           /\ consecFails'[f] = consecFails[f]
           /\ yielded'[f] = yielded[f]
           /\ handed'[f] = handed[f]
           /\ streamEnded'[f] = streamEnded[f]]_vars

\* On both feeds the second item is in process after the first one failed.
C13_Witness ==
  \A f \in Feeds :
    /\ lastProc[f] = "err"
    /\ feedState[f] = "Processing"
    /\ handed[f] = <<1, 2>>
    /\ retry_count[f] = 0

\* C14: within a feed the items are handed to the sink in the order the
\* stream yielded them (1, 2, ...), each one as soon as it is yielded, and at
\* most one of them, the last one handed, is in process: every earlier one
\* has returned before the next one starts.
C14_ItemsInOrder ==
  \A f \in Feeds :
    /\ handed[f] = [i \in 1..yielded[f] |-> i]
    /\ Cardinality(inProcess[f]) <= 1
    /\ inProcess[f] \subseteq {yielded[f]}
    /\ feedState[f] = "Processing" <=> (inProcess[f] # {} /\ stopKind[f] = "none")

\* The second item of a feed is in process, the first one has returned.
C14_Witness ==
  \E f \in Feeds :
    /\ handed[f] = <<1, 2>>
    /\ inProcess[f] = {2}
    /\ lastProc[f] # "none"

\* C15: cancellation is cooperative. A supervisor that has taken the shutdown
\* message hands no further item to the sink; it takes the message only
\* between two items, so that no item is in process, and no slot of the
\* evaluator is held by the feed, when it stops: processing that had started
\* has returned and given its slot back.
C15_CooperativeCancel ==
  /\ [](/\ \A f \in Feeds : stopKind[f] = "clean" => inProcess[f] = {}
        /\ stopKind["tx"] = "clean" =>
              (txPc = "idle" /\ simPc[FeedCaller] = "idle" /\ permits = WorkerThreads)
        /\ feedState["tx"] = "Streaming" => permits = WorkerThreads)
  /\ [][\A f \in Feeds :
         /\ stopKind[f] = "clean" => (handed'[f] = handed[f] /\ FeedView(f)' = FeedView(f))
         /\ feedState[f] = "Processing" => stopKind'[f] # "clean"]_vars

\* The shutdown message is queued and untaken while the evaluation of the
\* feed's second item holds a slot: the processing goes on.
C15_Witness ==
  /\ sends = 1
  /\ shutdown_chan = 1
  /\ feedState["tx"] = "Processing"
  /\ inProcess["tx"] = {2}
  /\ simPc[FeedCaller] = "fetch"
  /\ permits = WorkerThreads - 1

\* Caller c returns Ok from simulate_transaction in this step.
ReturnsOk(c) ==
  /\ simPc[c] \in {"cached", "fetch"}
  /\ simPc'[c] = "idle"
  /\ simOut'[c].kind = "ok"

\* The price that call got from get_cached_gas_price.
PriceRead(c) == current_gas_price'[c]

\* C16: a call for a transaction whose gas price (0 when it has none) is at
\* most the price got from the cache returns profit 0, whatever the gas limit.
C16_NoPremiumNoProfit ==
  [][\A c \in AllCallers :
       (ReturnsOk(c) /\ TxGasPrice(simTx[c]) <= PriceRead(c)) => simOut'[c].profit = 0]_vars

\* A transaction without gas price and with the largest gas limit was
\* evaluated against a non-zero cached price: profit 0.
C16_Witness ==
  /\ simPc[SoloCaller] = "idle"
  /\ simOut[SoloCaller] = Ok(0)
  /\ simTx[SoloCaller] = [gas_price |-> NoPrice, gas |-> WordMax]
  /\ client_gas_price > 0

\* C17: a call for a transaction with gas price above the price read and gas
\* limit L returns (gasPrice - price) * floor(L * 80 / 100), clamped to the
\* largest value of the domain, for every L up to that largest value.
C17_ProfitIsPremiumTimesEighty ==
  [][\A c \in AllCallers :
       (ReturnsOk(c) /\ TxGasPrice(simTx[c]) > PriceRead(c)) =>
         simOut'[c].profit =
           Min((TxGasPrice(simTx[c]) - PriceRead(c)) * ((simTx[c].gas * 80) \div 100),
               WordMax)]_vars

RECURSIVE SumSeq(_)
SumSeq(q) == IF q = <<>> THEN 0 ELSE Head(q) + SumSeq(Tail(q))

\* C18: estimate_bundle_profit never returns an error. When it has returned,
\* every member was evaluated, each one succeeded or failed, and the result
\* is Ok of the sum, clamped to the largest value, of the profits of the
\* members that succeeded (0 for an empty bundle and when all failed).
C18_BundleSumsSuccesses ==
  /\ bundleResult.kind # "err"
  /\ (bundlePc = "returned" /\ bundleResult.kind = "ok") =>
       /\ bundleRest = <<>>
       /\ bundleResult.profit = Min(SumSeq(bundleOks), WordMax)
       /\ (bundleOks = <<>> => bundleResult.profit = 0)

\* A bundle of two has returned: one member failed, the other gave a profit.
C18_Witness ==
  /\ bundlePc = "returned"
  /\ bundleResult.kind = "ok"
  /\ bundleResult.profit > 0
  /\ bundleFails = 1
  /\ Len(bundleOks) = 1

\* C19: get_cached_gas_price returns the cached price, without asking the
\* provider and without touching the cache, when it is non-zero; on zero it
\* asks the provider, and then either the answer is stored in the cache and
\* returned, or the error is returned and the cache is left as it was.
C19_CachedGetContract ==
  [][\A c \in AllCallers :
       /\ (simPc[c] = "cached" /\ simPc'[c] # "cached") =>
            IF client_gas_price > 0
              THEN /\ simPc'[c] = "idle"
                   /\ simOut'[c].kind = "ok"
                   /\ current_gas_price'[c] = client_gas_price
                   /\ client_gas_price' = client_gas_price
              ELSE /\ simPc'[c] = "fetch"
                   /\ client_gas_price' = client_gas_price
       /\ (simPc[c] = "fetch" /\ simPc'[c] # "fetch") =>
            \/ simOut'[c].kind = "ok" /\ current_gas_price'[c] = client_gas_price'
            \/ simOut'[c].kind = "err" /\ client_gas_price' = client_gas_price]_vars

\* C20: TransactionService::get_gas_price, on a zero service-level price,
\* stores the price it fetched in the service-level cache, and a second call
\* with no write in between returns the cached price without fetching again.
C20_ServiceGetCaches ==
  [][/\ (svcPc = "fetch" /\ svcOut'.kind = "fetched") => service_gas_price' = svcOut'.price
     /\ (svcPc = "idle" /\ svcOut.kind = "fetched" /\ svcOut.price > 0 /\ ~service_written)
          => svcPc' # "fetch"]_vars

\* The callers whose get_cached_gas_price found the cache unset and whose
\* provider query (get_gas_price) is in flight.
Fetching == {c \in AllCallers : simPc[c] = "fetch"}

\* C21: however many callers find the gas cache unset at the same time, at
\* most one provider fetch is in flight to satisfy them.
C21_SingleFetch == Cardinality(Fetching) <= 1

\* C22: a tick of the gas monitor on which the provider answers overwrites
\* the cache with the answer: the client-level cache at once, and when the
\* refresh completes both the client-level and the service-level cache hold
\* the fetched value.
C22_RefreshOverwritesBoth ==
  [][/\ (gasMon = "Fetching" /\ gasMon' \notin {"Fetching", "Waiting"}) =>
          (gasMon' = "Updating" /\ client_gas_price' = gasFetched')
     /\ (gasMon = "Updating" /\ gasMon' = "Waiting") =>
          (service_gas_price' = gasFetched /\ client_gas_price' = gasFetched)]_vars

\* C23: process_new_block hands the transactions of the block to
\* process_confirmed_transaction in block order, each one once: what has been
\* handed over is always the part of the block before what is left, and when
\* the loop is left it is the whole block, whichever of the transactions the
\* handler failed on.
C23_EveryTxConfirmedOnce ==
  /\ confirmedLog = SubSeq(blockTxs, 1, Len(confirmedLog))
  /\ blockTxs = confirmedLog \o blockRest
  /\ confirmErrs \subseteq {confirmedLog[i] : i \in 1..Len(confirmedLog)}
  /\ blockPc \in {"ret_ok", "ret_err"} => (confirmedLog = blockTxs /\ blockRest = <<>>)

\* A block of two was handled to its end although the handler failed on its
\* first transaction.
C23_Witness ==
  /\ blockPc = "ret_ok"
  /\ blockTxs = <<1, 2>>
  /\ confirmedLog = <<1, 2>>
  /\ confirmErrs = {1}

\* C24: process_new_block reaches the forward to the block builder only when
\* every transaction of the block has been handled. When the forward fails,
\* the error is returned for this block only: the block feed is back in
\* Streaming on the same subscription with its retry counter unchanged, the
\* next block can be taken from the stream, and its processing starts as for
\* any block.
C24_ForwardAfterLoopErrorLocal ==
  /\ [](/\ (feedState["block"] = "Streaming" /\ lastProc["block"] = "err"
              /\ yielded["block"] < MaxItems) => ENABLED StreamItem("block")
        /\ (feedState["block"] = "Processing" /\ blockPc = "idle") =>
              \A txs \in Blocks : ENABLED BlockStart(txs))
  /\ [][/\ (blockPc = "loop" /\ blockPc' \in {"ret_ok", "ret_err"}) =>
              (confirmedLog = blockTxs /\ blockRest = <<>>)
        /\ (blockPc = "ret_err" /\ blockPc' = "idle") =>
              /\ feedState'["block"] = "Streaming"
              /\ lastProc'["block"] = "err"
              /\ retry_count' = retry_count
              /\ consecFails' = consecFails
              /\ yielded' = yielded
              /\ handed' = handed]_vars

\* The forward of the first block failed; the second block, of two
\* transactions, was processed to its end and forwarded.
C24_Witness ==
  /\ lastProc["block"] = "err"
  /\ handed["block"] = <<1, 2>>
  /\ blockPc = "ret_ok"
  /\ confirmedLog = <<1, 2>>
  /\ retry_count["block"] = 0

\* C25: a pending transaction is flagged for inclusion exactly when its
\* evaluation returned a profit above 0. On the return of the evaluation a
\* positive profit is recorded and the transaction flagged, a profit of 0 is
\* recorded and the transaction not flagged, and after a failed evaluation
\* nothing is recorded and nothing flagged; no other step flags anything.
C25_FlaggedIffProfitable ==
  /\ [](flagged = {r[1] : r \in {q \in profitRec : q[2] > 0}})
  /\ [][/\ (txPc = "sim" /\ txPc' # "sim") =>
              LET out == simOut[FeedCaller] IN
                /\ (out.kind = "ok" /\ out.profit > 0) =>
                      /\ profitRec' = profitRec \cup {<<CurItem, out.profit>>}
                      /\ flagged' = flagged \cup {CurItem}
                /\ (out.kind = "ok" /\ out.profit = 0) =>
                      /\ profitRec' = profitRec \cup {<<CurItem, 0>>}
                      /\ flagged' = flagged
                /\ out.kind # "ok" => (profitRec' = profitRec /\ flagged' = flagged)
        /\ (flagged' # flagged \/ profitRec' # profitRec) => (txPc = "sim" /\ txPc' # "sim")]_vars

\* The first transaction was evaluated to profit 0 and is recorded but not
\* flagged; the second one gave a profit and is flagged.
C25_Witness ==
  /\ <<1, 0>> \in profitRec
  /\ \E q \in profitRec : q[1] = 2 /\ q[2] > 0
  /\ flagged = {2}

\* C26: a failed evaluation is not retried. An evaluation starts only when a
\* newly delivered transaction has been fetched, so that each delivered
\* transaction is evaluated at most once; when the evaluation returns an
\* error the dropped counter goes up by one, the processed and received
\* counters stay, and process_pending_transaction returns Ok to the feed.
C26_FailedEvaluationDropped ==
  /\ [](/\ processed + dropped <= received
        /\ received <= yielded["tx"]
        /\ processed = Cardinality({r[1] : r \in profitRec}))
  /\ [][/\ (txPc = "sim" /\ txPc' # "sim" /\ simOut[FeedCaller].kind = "err") =>
              /\ dropped' = dropped + 1
              /\ processed' = processed
              /\ received' = received
              /\ txPc' = "ret_ok"
        /\ (txPc = "ret_ok" /\ txPc' # "ret_ok") =>
              (txPc' = "idle" /\ lastProc'["tx"] = "ok" /\ feedState'["tx"] = "Streaming")
        /\ (txPc' = "get_tx" /\ txPc # "get_tx") => yielded'["tx"] = yielded["tx"] + 1
        /\ (simPc'[FeedCaller] = "acquire" /\ simPc[FeedCaller] # "acquire") =>
              (txPc = "get_tx" /\ txPc' = "sim" /\ received' = received + 1)
        /\ dropped' # dropped =>
              (txPc = "sim" /\ simOut[FeedCaller].kind = "err" /\ dropped' = dropped + 1)]_vars

\* Two transactions were delivered: the evaluation of one failed and it was
\* dropped, the other was processed, and both calls returned Ok to the feed.
C26_Witness ==
  /\ received = 2
  /\ dropped = 1
  /\ processed = 1
  /\ lastProc["tx"] = "ok"
  /\ feedState["tx"] = "Streaming"

\* The items of the transaction feed something was recorded for.
Recorded == stored \cup flagged \cup {r[1] : r \in profitRec}

\* C27: when the point query for a pending hash returns not-found or fails,
\* the step records nothing, starts no evaluation and takes no evaluator
\* slot; the item is skipped (nothing is ever recorded for an item that was
\* not found), and the transaction feed is back in Streaming on the same
\* subscription with its retry counter unchanged, ready for the next item.
C27_MissedQuerySkipsItem ==
  /\ [](/\ Recorded \subseteq stored
        /\ Cardinality(stored) = received
        /\ txPc = "ret_err" => (CurItem \notin Recorded /\ permits = WorkerThreads)
        /\ (feedState["tx"] = "Streaming" /\ yielded["tx"] < MaxItems) =>
              ENABLED StreamItem("tx"))
  /\ [][/\ (txPc = "get_tx" /\ txPc' \in {"ret_ok", "ret_err"}) =>
              /\ UNCHANGED <<pendVars, permits, simPc, simTx, simOut>>
              /\ permits = WorkerThreads
              /\ CurItem \notin Recorded
        /\ (txPc \in {"ret_ok", "ret_err"} /\ txPc' # txPc) =>
              /\ txPc' = "idle"
              /\ feedState'["tx"] = "Streaming"
              /\ UNCHANGED <<pendVars, permits, simPc, retry_count, consecFails, yielded,
                             handed>>]_vars

\* Both delivered hashes were skipped, the last one on a failed query:
\* nothing was recorded and the feed is streaming.
C27_Witness ==
  /\ yielded["tx"] = 2
  /\ feedState["tx"] = "Streaming"
  /\ lastProc["tx"] = "err"
  /\ Recorded = {}
  /\ received = 0
  /\ retry_count["tx"] = 0

\* C28: handling a confirmed block is a status update only. No step of
\* process_new_block (its entry, a round of its loop, the forward, its
\* return) takes or gives back an evaluator slot, starts or ends an
\* evaluation, or changes the received, processed and dropped counters, the
\* stored transactions, the profit records, the inclusion flags or either
\* gas-price cache.
C28_BlockIsStatusUpdateOnly ==
  [][blockVars' # blockVars =>
       UNCHANGED <<received, processed, dropped, stored, profitRec, flagged,
                   permits, simPc, simTx, simOut, current_gas_price,
                   client_gas_price, service_gas_price>>]_vars

\* A block of two has been handled to its end while the counters, a profit
\* record and a flag were set, the caches were set, and an evaluation of the
\* transaction feed was holding a slot.
C28_Witness ==
  /\ blockPc = "ret_ok"
  /\ confirmedLog = <<1, 2>>
  /\ received = 2
  /\ processed = 1
  /\ flagged = {1}
  /\ client_gas_price > 0
  /\ simPc[FeedCaller] = "cached"
  /\ permits = WorkerThreads - 1

\* C29: the two gas-price caches are written apart and can hold different
\* values. A fetch made for an evaluation stores the price in the
\* client-level cache only; a refresh writes the client-level cache first
\* and the service-level cache in a later step; no step writes both.
C29_CachesWrittenApart ==
  [][/\ \A c \in AllCallers :
          (simPc[c] = "fetch" /\ simOut'[c].kind = "ok") =>
            /\ client_gas_price' = current_gas_price'[c]
            /\ service_gas_price' = service_gas_price
     /\ (gasMon = "Fetching" /\ gasMon' = "Updating") =>
          (client_gas_price' = gasFetched' /\ service_gas_price' = service_gas_price)
     /\ client_gas_price' # client_gas_price => service_gas_price' = service_gas_price]_vars

\* The caches differ after an evaluation of the transaction feed fetched the
\* price on an unset cache: the client-level cache holds the price the
\* evaluation read, the service-level cache is still unset and no refresh is
\* under way.
C29_Witness ==
  /\ client_gas_price # service_gas_price
  /\ service_gas_price = 0
  /\ gasMon = "Waiting"
  /\ simPc[FeedCaller] = "idle"
  /\ simOut[FeedCaller].kind = "ok"
  /\ current_gas_price[FeedCaller] = client_gas_price

\* C30: the configured maximum simulation time is not enforced. An
\* evaluation waiting for the provider's gas price keeps its slot and leaves
\* the wait only when the query has answered (a price, an error, or the
\* failing cast), never by a timeout; so while WorkerThreads evaluations wait
\* for the provider no slot is free and no further caller gets past the
\* acquisition, until one of them has returned.
C30_TimeoutInert ==
  /\ [](/\ permits <= WorkerThreads - Cardinality(Fetching)
        /\ Cardinality(Fetching) = WorkerThreads =>
              (permits = 0 /\ \A c \in AllCallers : ~ENABLED SimAcquire(c))
        /\ \A c \in AllCallers : simOut[c].kind # "timeout")
  /\ [][/\ \A c \in AllCallers :
              (simPc[c] = "fetch" /\ simPc'[c] # "fetch") =>
                /\ simPc'[c] = "idle"
                /\ simOut'[c].kind \in {"ok", "err", "panic"}
                /\ permits' = permits + 1
        /\ \A c \in AllCallers :
              (simPc[c] = "acquire" /\ simPc'[c] # "acquire") =>
                (simPc'[c] = "cached" /\ Cardinality(Fetching) < WorkerThreads)]_vars

\* Every slot is held by an evaluation waiting for the provider, and another
\* caller is suspended at the acquisition.
C30_Witness ==
  /\ Cardinality(Fetching) = WorkerThreads
  /\ permits = 0
  /\ \E c \in Callers : simPc[c] = "acquire"

\* C31: the slot pool cannot deadlock. When every admitted evaluation
\* eventually returns (every provider query is answered or fails), every
\* caller suspended at the slot acquisition is eventually admitted and every
\* call of simulate_transaction eventually returns; an admitted evaluation
\* can always take its next step, whatever the number of free slots.
C31_NoSlotDeadlock ==
  /\ \A c \in Callers : (simPc[c] = "acquire") ~> (simPc[c] = "cached")
  /\ \A c \in Callers : (simPc[c] # "idle") ~> (simPc[c] = "idle")
  /\ [](\A c \in Callers :
          /\ simPc[c] = "cached" => ENABLED SimCached(c)
          /\ simPc[c] = "fetch" => ENABLED FetchAnswered(c))

\* Every slot is held, one evaluation has not asked the provider yet and one
\* waits for its answer, and all the other callers are suspended at the
\* acquisition.
C31_Witness ==
  /\ permits = 0
  /\ \E c \in Callers : simPc[c] = "cached"
  /\ \E c \in Callers : simPc[c] = "fetch"
  /\ Cardinality({c \in Callers : simPc[c] = "acquire"}) = NumCallers - WorkerThreads

\* The slots held by the other callers.
HeldByOthers == Cardinality(InFlight \ {SoloCaller})

\* C32: estimate_bundle_profit evaluates its transactions one after the
\* other in list order and holds at most one slot at any instant: the
\* transactions handed to the evaluator so far are a prefix of the list, the
\* next one is handed over only after the evaluation before it has returned
\* its slot, and between two members the bundle holds no slot. So a member's
\* acquisition is never held up by the bundle itself, and a bundle that has
\* been called completes even when the other callers leave it one slot only.
C32_BundleOneSlot ==
  /\ [](/\ bundleSeen = SubSeq(bundleTxs, 1, Len(bundleSeen))
        /\ bundleRest = SubSeq(bundleTxs,
                               Len(bundleSeen) + (IF bundlePc = "eval" THEN 0 ELSE 1),
                               Len(bundleTxs))
        /\ permits = WorkerThreads - HeldByOthers
                       - (IF simPc[SoloCaller] \in {"cached", "fetch"} THEN 1 ELSE 0)
        /\ bundlePc # "eval" => simPc[SoloCaller] = "idle"
        /\ simPc[SoloCaller] = "acquire" => (permits >= 1 /\ ENABLED SimAcquire(SoloCaller)))
  /\ (bundlePc = "loop") ~> (bundlePc = "returned")

\* The second member of a two-member bundle is under evaluation, holding the
\* last free slot, while the other callers hold all the other slots.
C32_Witness ==
  /\ Len(bundleTxs) = 2
  /\ bundleTxs[1] # bundleTxs[2]
  /\ bundleSeen = bundleTxs
  /\ bundlePc = "eval"
  /\ simPc[SoloCaller] = "fetch"
  /\ HeldByOthers = WorkerThreads - 1
  /\ permits = 0

\* C33: each feed processes one item at a time. While the processing of an
\* item has not returned, the supervisor neither takes the next item from
\* its stream nor looks at the shutdown message; so at most one block and at
\* most one pending transaction are in processing, an evaluation made for the
\* transaction feed belongs to the one item in processing, and the feed
\* holds at most one slot.
C33_OneItemAtATime ==
  /\ \A f \in Feeds :
        feedState[f] = "Processing" =>
          /\ ~ENABLED StreamItem(f)
          /\ ~ENABLED StreamEnd(f)
          /\ ~ENABLED FeedRecvShutdown(f)
          /\ inProcess[f] = {handed[f][Len(handed[f])]}
  /\ \A f \in Feeds : feedState[f] \in {"Subscribing", "Backoff", "Streaming"} => inProcess[f] = {}
  /\ simPc[FeedCaller] # "idle" =>
        (feedState["tx"] = "Processing" /\ txPc = "sim" /\ inProcess["tx"] = {CurItem})
  /\ InFlight \subseteq {FeedCaller}
  /\ permits >= WorkerThreads - 1

\* Both feeds are in the processing of their first item while the shutdown
\* message is queued and untaken; the transaction feed's evaluation holds
\* its slot.
C33_Witness ==
  /\ \A f \in Feeds : feedState[f] = "Processing" /\ inProcess[f] = {1} /\ yielded[f] = 1
  /\ shutdown_chan = 1
  /\ simPc[FeedCaller] = "cached"
  /\ permits = WorkerThreads - 1

\* C34: a feed's retry counter lies in 0..max_retries + 1. It is between 1
\* and max_retries whenever the supervisor sleeps in backoff, it holds
\* max_retries + 1 only once the feed has stopped for good, reaching it in
\* the very step that stops the feed, and it changes only at a subscribe
\* attempt: by +1 when the attempt failed, to 0 when it succeeded.
C34_RetryCounterRange ==
  /\ [](\A f \in Feeds :
          /\ retry_count[f] \in 0..(max_retries + 1)
          /\ feedState[f] = "Backoff" => retry_count[f] \in 1..max_retries
          /\ retry_count[f] = max_retries + 1 =>
                (feedState[f] = "Stopped" /\ stopKind[f] = "fatal"))
  /\ [][\A f \in Feeds :
          /\ retry_count'[f] # retry_count[f] =>
                /\ feedState[f] = "Subscribing"
                /\ \/ /\ retry_count'[f] = retry_count[f] + 1
                      /\ feedState'[f] \in {"Backoff", "Stopped"}
                   \/ /\ retry_count'[f] = 0
                      /\ feedState'[f] = "Streaming"
          /\ (retry_count'[f] = max_retries + 1 /\ retry_count[f] # max_retries + 1) =>
                (feedState'[f] = "Stopped" /\ stopKind'[f] = "fatal" /\ stopKind[f] = "none")
          /\ (feedState[f] = "Subscribing" /\ feedState'[f] = "Backoff") =>
                retry_count'[f] = retry_count[f] + 1]_vars

\* One feed has stopped for good with the counter at max_retries + 1 while
\* the other sleeps in its last backoff with the counter at max_retries.
C34_Witness ==
  \E f, g \in Feeds :
    /\ feedState[f] = "Stopped" /\ stopKind[f] = "fatal" /\ retry_count[f] = max_retries + 1
    /\ feedState[g] = "Backoff" /\ retry_count[g] = max_retries

\* The handler calls that counted their transaction as received and have
\* not come to the end of their match: the one that awaits the evaluation,
\* and the one the unwinding of a panic cut short.
OpenCalls == IF txPc = "sim" \/ stopKind["tx"] = "panic" THEN 1 ELSE 0

\* C35: the pending-transaction counters stay consistent. The received
\* counter is never below processed + dropped; it exceeds the sum by the one
\* call that has not come to its end, and equals it after every call that
\* ran to its end. A call adds one to exactly one of processed and dropped,
\* in the step in which its evaluation's result is matched, so no
\* transaction is counted as both; the processed ones are those for which a
\* profit was recorded.
C35_CountersConsistent ==
  /\ [](/\ received >= processed + dropped
        /\ received = processed + dropped + OpenCalls
        /\ txPc = "ret_ok" => received = processed + dropped
        /\ received <= Len(handed["tx"])
        /\ processed = Cardinality({r[1] : r \in profitRec}))
  /\ [][/\ processed' + dropped' \in {processed + dropped, processed + dropped + 1}
        /\ processed' >= processed
        /\ dropped' >= dropped
        /\ processed' + dropped' # processed + dropped =>
              (txPc = "sim" /\ txPc' = "ret_ok" /\ received' = received
               /\ (processed' # processed <=> simOut[FeedCaller].kind = "ok"))
        /\ received' # received =>
              (received' = received + 1 /\ txPc = "get_tx" /\ txPc' = "sim"
               /\ processed' = processed /\ dropped' = dropped)]_vars

\* Two calls ran to their end, one counted as processed and one as dropped.
C35_Witness ==
  /\ received = 2
  /\ processed = 1
  /\ dropped = 1
  /\ txPc = "ret_ok"
  /\ Len(handed["tx"]) = 2

\* The gas monitor task is inside its loop.
GasLooping == gasMon \in {"Waiting", "Fetching", "Updating"}

\* C36: a failed gas-price fetch on a tick of the gas monitor leaves both
\* caches at their previous values, does not stop the monitor and touches
\* neither feed; the monitor is back at its select!, where the next tick
\* fetches again, and it leaves its loop only by taking the shutdown message.
C36_FailedFetchHarmless ==
  /\ [](gasMon = "Waiting" => ENABLED GasTick)
  /\ [][/\ (gasMon = "Fetching" /\ gasMon' = "Waiting") =>
              /\ client_gas_price' = client_gas_price
              /\ service_gas_price' = service_gas_price
              /\ feedVars' = feedVars
        /\ (GasLooping /\ ~GasLooping') =>
              (gasMon = "Waiting" /\ gasMon' = "Stopped" /\ RecvReady)]_vars

\* The monitor is down: shutdown() has returned after joining all its tasks.
MonitorDown ==
  /\ shutdownPc = "returned"
  /\ joined = Len(Tasks)
  /\ AllTasksStopped

\* C37: process shutdown is ordered. The API server is shut down first, then
\* the monitor, then the services one by one in their order; the services'
\* shutdown starts only after the monitor's shutdown() has returned, with
\* all three monitor tasks ended, so that from then on no feed hands an item
\* to a service and no evaluation is under way; and once a step has failed
\* no later step is run.
C37_ShutdownOrdered ==
  /\ [](/\ shutdownPc # "idle" => (apiDown /\ mainPc # "api")
        /\ (mainPc \in {"services", "done", "failed"} \/ servicesDown > 0) =>
              (apiDown /\ MonitorDown /\ simPc[FeedCaller] = "idle" /\ permits = WorkerThreads)
        /\ mainPc = "done" => servicesDown = Len(ServiceOrder)
        /\ mainPc = "failed" =>
              /\ servicesDown < Len(ServiceOrder)
              /\ \A res \in {"ok", "err"} : ~ENABLED ServiceShutdown(res)
              /\ ~ENABLED MainReturn)
  /\ [][/\ (mainPc \in {"services", "done", "failed"} \/ servicesDown > 0) =>
              (feedVars' = feedVars /\ simVars' = simVars /\ gasVars' = gasVars)
        /\ servicesDown' # servicesDown =>
              (servicesDown' = servicesDown + 1 /\ mainPc = "services" /\ mainPc' = "services")
        /\ apiDown' # apiDown => (shutdownPc = "idle" /\ servicesDown = 0 /\ mainPc = "api")
        /\ mainPc = "failed" => mainVars' = mainVars
        /\ (mainPc # "failed" /\ mainPc' = "failed") => servicesDown' = servicesDown]_vars

\* The transaction feed had handed an item over and a monitor task had ended
\* by a panic; API server, monitor and the first service are shut down, the
\* second service's shutdown failed and the services after it were not run.
C37_Witness ==
  /\ mainPc = "failed"
  /\ servicesDown = 1
  /\ apiDown
  /\ MonitorDown
  /\ joinWarned # {}
  /\ Len(handed["tx"]) > 0

====
